---- MODULE Spec2Model ----
(***************************************************************************)
(* Model of src/file2.py: the two data-preparation entry points            *)
(* college_train_test and job_train_test.  Each call reads a CSV file,     *)
(* derives a binary target from the median of an outcome column, drops     *)
(* identifier / leakage columns, routes the remaining columns to a numeric *)
(* or a categorical preprocessing branch, makes a stratified train/test    *)
(* split, fits the preprocessing on the train rows and applies it to the   *)
(* test rows.                                                              *)
(*                                                                         *)
(* Every numbered step of the source is one action.  The pandas and        *)
(* scikit-learn calls the steps make are modelled by operators that        *)
(* compute what the library computes on the values the model ranges over.  *)
(*                                                                         *)
(* Representation.                                                         *)
(*  - A CSV cell is its text.  "" is the empty field (NaN after loading).  *)
(*    A numeric column keeps the text of its cells; NumVal parses it.      *)
(*  - Medians of an even number of values are midpoints, so every median   *)
(*    and every imputed numeric value is kept doubled (suffix 2).          *)
(*  - A cell of an output matrix is [nan, num, den2], the real number      *)
(*    num / sqrt(den2): standardisation divides by a square root, which    *)
(*    is kept symbolic.                                                    *)
(*  - numpy's generator is a deterministic function of its state; the      *)
(*    state is a natural number, a draw depends on the state and advances  *)
(*    it by one.                                                           *)
(***************************************************************************)
EXTENDS Integers, Sequences, FiniteSets, TLC

VARIABLES
    csv,        \* the file on disk: [cols, rows]
    args,       \* the call's arguments: [fn, salary_col, test_size, seed]
    pc,         \* the step the call has reached
    df,         \* the DataFrame df of the call
    cutoff,     \* the median cutoff: [nan, v2]
    xy,         \* [X, y] after step 6
    roles,      \* [num_cols, cat_cols] after step 7
    split,      \* [train, test]: positions of X's rows, in order
    fitted,     \* the fitted preprocessor
    out,        \* [X_train_prep, X_test_prep]
    result,     \* the returned tuple, or None
    err,        \* the exception that ended the call, or None
    npRandom,   \* the state of numpy's global generator
    prev        \* what the previous call with these arguments returned

vars == <<csv, args, pc, df, cutoff, xy, roles, split, fitted, out, result, err,
          npRandom, prev>>

---------------------------------------------------------------------------
(* Bounds and value universes                                              *)

MaxRows == 5

NA == ""
None == [none |-> TRUE]

\* pd.to_numeric / the CSV parser: the texts that parse as numbers.
NumVal == [s \in {"1", "2", "3"} |-> CASE s = "1" -> 1 [] s = "2" -> 2 [] s = "3" -> 3]

IsNum(s) == s \in DOMAIN NumVal

\* Lexicographic order of the texts that can be category values
\* (np.unique sorts them; digits sort before letters).
TextOrder == <<"1", "2", "3", "a", "b", "t">>

RankOf(s) == CHOOSE i \in 1..Len(TextOrder) : TextOrder[i] = s

\* str.lower() on the column names of the model.
Lower(c) ==
    CASE c \in {"Status", "STATUS"} -> "status"
      [] c \in {"Placed", "PLACED"} -> "placed"
      [] OTHER -> c

---------------------------------------------------------------------------
(* Sequences                                                               *)

Range(s) == {s[i] : i \in 1..Len(s)}

RECURSIVE SumSeq(_)
SumSeq(s) == IF s = <<>> THEN 0 ELSE Head(s) + SumSeq(Tail(s))

RECURSIVE Concat(_)
Concat(ss) == IF ss = <<>> THEN <<>> ELSE Head(ss) \o Concat(Tail(ss))

Sorted(s) == SortSeq(s, LAMBDA a, b : a < b)

---------------------------------------------------------------------------
(* pandas                                                                  *)

\* pd.read_csv: a column is numeric (int64/float64) when every field is a
\* number or empty, else object; the index is the row number.
read_csv(file) ==
    [cols  |-> file.cols,
     dtype |-> [c \in Range(file.cols) |->
                  IF \A i \in 1..Len(file.rows) :
                        IsNum(file.rows[i][c]) \/ file.rows[i][c] = NA
                  THEN "num" ELSE "obj"],
     rows  |-> [i \in 1..Len(file.rows) |-> [idx |-> i, cells |-> file.rows[i]]]]

\* pd.to_numeric(df[col], errors="coerce") assigned back to df[col].
to_numeric(t, col) ==
    [t EXCEPT !.dtype[col] = "num",
              !.rows = [i \in 1..Len(t.rows) |->
                  [t.rows[i] EXCEPT !.cells[col] = IF IsNum(@) THEN @ ELSE NA]]]

\* df.dropna(subset=[col])
dropna(t, col) == [t EXCEPT !.rows = SelectSeq(@, LAMBDA r : r.cells[col] # NA)]

\* A median that is 0 on an empty series instead of NaN.
median2ZeroOnEmpty(vals) ==
    LET s == Sorted(vals)
        n == Len(vals)
    IN  IF n = 0 THEN [nan |-> FALSE, v2 |-> 0]
        ELSE IF n % 2 = 1 THEN [nan |-> FALSE, v2 |-> 2 * s[(n + 1) \div 2]]
        ELSE [nan |-> FALSE, v2 |-> s[n \div 2] + s[n \div 2 + 1]]

\* Series.median(): NaN on an empty series, the middle value or the midpoint
\* of the two middle values otherwise (doubled).
median2(vals) ==
    LET s == Sorted(vals)
        n == Len(vals)
    IN  IF n = 0 THEN [nan |-> TRUE, v2 |-> 0]
        ELSE IF n % 2 = 1 THEN [nan |-> FALSE, v2 |-> 2 * s[(n + 1) \div 2]]
        ELSE [nan |-> FALSE, v2 |-> s[n \div 2] + s[n \div 2 + 1]]

ColumnValues(t, col) == [i \in 1..Len(t.rows) |-> NumVal[t.rows[i].cells[col]]]

\* The comparison written >= instead of >.
AboveOrAtCutoff(s, m) == IF ~m.nan /\ 2 * NumVal[s] >= m.v2 THEN "1" ELSE "0"

\* (value > cutoff).astype(int): a comparison with NaN is False.
AboveCutoff(s, m) == IF ~m.nan /\ 2 * NumVal[s] > m.v2 THEN "1" ELSE "0"

\* df[name] = values: overwrites the column in place or appends it
\* (values is row-aligned with df).
assign(t, name, values) ==
    [cols  |-> IF name \in Range(t.cols) THEN t.cols ELSE Append(t.cols, name),
     dtype |-> [c \in Range(t.cols) \cup {name} |->
                  IF c = name THEN "num" ELSE t.dtype[c]],
     rows  |-> [i \in 1..Len(t.rows) |->
                  [idx |-> t.rows[i].idx,
                   cells |-> [c \in Range(t.cols) \cup {name} |->
                       IF c = name THEN values[i] ELSE t.rows[i].cells[c]]]]]

\* df.drop(columns=names, errors="ignore")
drop(t, names) ==
    LET keep == SelectSeq(t.cols, LAMBDA c : c \notin names)
    IN  [cols  |-> keep,
         dtype |-> [c \in Range(keep) |-> t.dtype[c]],
         rows  |-> [i \in 1..Len(t.rows) |->
                      [idx |-> t.rows[i].idx,
                       cells |-> [c \in Range(keep) |-> t.rows[i].cells[c]]]]]

\* pd.api.types.is_numeric_dtype(X[c])
is_numeric_dtype(t, c) == t.dtype[c] = "num"

---------------------------------------------------------------------------
(* numpy.random                                                            *)

\* random_state left out: the split draws from the global generator.
check_random_state_global(seed, global) == [state |-> global, global |-> TRUE]

\* sklearn.utils.check_random_state(random_state): an int seeds a fresh
\* generator; the global generator npRandom is left alone.
check_random_state(seed, global) == [state |-> seed, global |-> FALSE]

\* rng.permutation(k): a permutation of 1..k drawn from the state s.
Permutation(s, k) ==
    [i \in 1..k |->
        LET j == ((i - 1 + s) % k) + 1
        IN  IF (s \div k) % 2 = 1 THEN k + 1 - j ELSE j]

\* rng.permutation(seq)
Shuffle(s, seq) == [i \in 1..Len(seq) |-> seq[Permutation(s, Len(seq))[i]]]

\* rng.choice(inds, size=1, replace=False)
Choice(s, inds) == inds[(s % Len(inds)) + 1]

---------------------------------------------------------------------------
(* sklearn.model_selection.train_test_split(X, y, test_size, random_state, *)
(* stratify=y)                                                             *)

\* ceil(num/den * n), test_size = num/den
CeilFrac(ts, n) == (ts[1] * n + ts[2] - 1) \div ts[2]

\* A ceiling computed as floor + 1, one too many when the product is whole.
NTestFloorPlusOne(ts, n) == (ts[1] * n) \div ts[2] + 1

\* _validate_shuffle_split: the sizes of the two partitions.
NTest(ts, n) == CeilFrac(ts, n)
NTrain(ts, n) == n - NTest(ts, n)

Classes(y) == SelectSeq(<<"0", "1">>, LAMBDA c : c \in Range(y))

\* class_indices: the positions of each class, ascending.
ClassIndices(y, c) ==
    SelectSeq([i \in 1..Len(y) |-> i], LAMBDA i : y[i] = c)

ClassCounts(y) ==
    [k \in 1..Len(Classes(y)) |-> Len(ClassIndices(y, Classes(y)[k]))]

\* A split that also refuses a label vector of fewer than two classes.
SplitErrorTwoClasses(y, ts) ==
    LET n  == Len(y)
        nc == Len(Classes(y))
        cc == ClassCounts(y)
    IN  IF NTrain(ts, n) = 0
        THEN [kind |-> "ValueError", step |-> "split", what |-> "empty train set"]
        ELSE IF nc < 2
        THEN [kind |-> "ValueError", step |-> "split", what |-> "fewer than 2 classes"]
        ELSE IF \E k \in 1..nc : cc[k] < 2
        THEN [kind |-> "ValueError", step |-> "split",
              what |-> "least populated class has 1 member"]
        ELSE IF NTrain(ts, n) < nc \/ NTest(ts, n) < nc
        THEN [kind |-> "ValueError", step |-> "split",
              what |-> "partition size below number of classes"]
        ELSE None

\* The exception the split raises on these labels, or None.
SplitError(y, ts) ==
    LET n  == Len(y)
        nc == Len(Classes(y))
        cc == ClassCounts(y)
    IN  IF NTrain(ts, n) = 0
        THEN [kind |-> "ValueError", step |-> "split", what |-> "empty train set"]
        ELSE IF \E k \in 1..nc : cc[k] < 2
        THEN [kind |-> "ValueError", step |-> "split",
              what |-> "least populated class has 1 member"]
        ELSE IF NTrain(ts, n) < nc
        THEN [kind |-> "ValueError", step |-> "split",
              what |-> "train size below number of classes"]
        ELSE IF NTest(ts, n) < nc
        THEN [kind |-> "ValueError", step |-> "split",
              what |-> "test size below number of classes"]
        ELSE None

\* _approximate_mode(class_counts, n_draws, rng): floor(c * d / total) per
\* class; the draws still missing go to the largest remainders, ties by
\* rng.choice.  With at most two classes at most one draw is missing.
ApproximateMode(cc, d, s) ==
    LET tot   == SumSeq(cc)
        flo   == [k \in 1..Len(cc) |-> (cc[k] * d) \div tot]
        rem   == [k \in 1..Len(cc) |-> (cc[k] * d) % tot]
        need  == d - SumSeq(flo)
        top   == CHOOSE v \in Range(rem) : \A w \in Range(rem) : w <= v
        inds  == SelectSeq([k \in 1..Len(cc) |-> k], LAMBDA k : rem[k] = top)
        pick  == Choice(s, inds)
    IN  IF need = 0
        THEN [n |-> flo, state |-> s]
        ELSE [n |-> [k \in 1..Len(cc) |-> IF k = pick THEN flo[k] + 1 ELSE flo[k]],
              state |-> s + 1]

\* StratifiedShuffleSplit._iter_indices: per class a permutation of its
\* members, the first n_i to train and the next t_i to test; both lists are
\* shuffled at the end.
StratifiedSplit(y, ts, rs) ==
    LET n    == Len(y)
        cls  == Classes(y)
        cc   == ClassCounts(y)
        ni   == ApproximateMode(cc, NTrain(ts, n), rs.state)
        rest == [k \in 1..Len(cc) |-> cc[k] - ni.n[k]]
        ti   == ApproximateMode(rest, NTest(ts, n), ni.state)
        s1   == ti.state
        permuted(k) ==
            LET ci == ClassIndices(y, cls[k])
                p  == Permutation(s1 + k - 1, cc[k])
            IN  [j \in 1..cc[k] |-> ci[p[j]]]
        trainOf(k) == SubSeq(permuted(k), 1, ni.n[k])
        testOf(k)  == SubSeq(permuted(k), ni.n[k] + 1, ni.n[k] + ti.n[k])
        train == Concat([k \in 1..Len(cc) |-> trainOf(k)])
        test  == Concat([k \in 1..Len(cc) |-> testOf(k)])
    IN  [train |-> Shuffle(s1 + Len(cc), train),
         test  |-> Shuffle(s1 + Len(cc) + 1, test),
         state |-> s1 + Len(cc) + 2]

---------------------------------------------------------------------------
(* The preprocessor: ColumnTransformer of                                  *)
(*   num: SimpleImputer(strategy="median") -> StandardScaler()             *)
(*   cat: SimpleImputer(strategy="most_frequent")                          *)
(*        -> OneHotEncoder(handle_unknown="ignore")                        *)

\* The non-missing values of column c in rows (a sequence of cell records).
Present(rows, c) ==
    SelectSeq([i \in 1..Len(rows) |-> rows[i][c]], LAMBDA v : v # NA)

\* SimpleImputer(median).fit on one column, then StandardScaler.fit on the
\* imputed column.  A column with no observed value has no median and is
\* removed by the imputer (kept = FALSE).  n, sum2 and dev2 give the mean
\* sum2/(2n) and the variance dev2/(4 n^2) of the imputed values.
FitNumeric(rows, c) ==
    LET obs  == Present(rows, c)
        med  == median2([i \in 1..Len(obs) |-> NumVal[obs[i]]])
        imp  == [i \in 1..Len(rows) |->
                    IF rows[i][c] = NA THEN med.v2 ELSE 2 * NumVal[rows[i][c]]]
        n    == Len(rows)
        sum  == SumSeq(imp)
        sq   == SumSeq([i \in 1..n |-> imp[i] * imp[i]])
    IN  IF obs = <<>>
        THEN [col |-> c, kept |-> FALSE, med2 |-> 0, n |-> n, sum2 |-> 0, dev2 |-> 0]
        ELSE [col |-> c, kept |-> TRUE, med2 |-> med.v2, n |-> n, sum2 |-> sum,
              dev2 |-> n * sq - sum * sum]

\* SimpleImputer(most_frequent).fit on one column (ties go to the smallest
\* value), then OneHotEncoder.fit: the sorted distinct values.
FitCategorical(rows, c) ==
    LET obs   == Present(rows, c)
        freq(v) == Len(SelectSeq(obs, LAMBDA w : w = v))
        mode  == CHOOSE v \in Range(obs) :
                    \A w \in Range(obs) :
                        \/ freq(w) < freq(v)
                        \/ freq(w) = freq(v) /\ RankOf(v) <= RankOf(w)
        cats  == SelectSeq(TextOrder, LAMBDA v : v \in Range(obs))
    IN  IF obs = <<>>
        THEN [col |-> c, kept |-> FALSE, mode |-> NA, cats |-> <<>>]
        ELSE [col |-> c, kept |-> TRUE, mode |-> mode, cats |-> cats]

\* preprocessor.fit(rows): both branches, on the rows it is given.
Fit(rows, num_cols, cat_cols) ==
    [num |-> [k \in 1..Len(num_cols) |-> FitNumeric(rows, num_cols[k])],
     cat |-> [k \in 1..Len(cat_cols) |-> FitCategorical(rows, cat_cols[k])]]

\* A branch whose imputer removed every column hands an array with no
\* feature to StandardScaler / OneHotEncoder, which refuse it.  A branch
\* with no column at all is skipped by the ColumnTransformer.
FitError(f) ==
    IF f.num # <<>> /\ \A k \in 1..Len(f.num) : ~f.num[k].kept
    THEN [kind |-> "ValueError", step |-> "fit", what |-> "0 features for StandardScaler"]
    ELSE IF f.cat # <<>> /\ \A k \in 1..Len(f.cat) : ~f.cat[k].kept
    THEN [kind |-> "ValueError", step |-> "fit", what |-> "0 features for OneHotEncoder"]
    ELSE None

\* The columns of the output matrices: the kept numeric columns, then one
\* indicator per category of each kept categorical column.
OutCols(f) ==
    Concat([k \in 1..Len(f.num) |->
              IF f.num[k].kept THEN <<[col |-> f.num[k].col, cat |-> NA]>> ELSE <<>>])
    \o
    Concat([k \in 1..Len(f.cat) |->
              IF f.cat[k].kept
              THEN [j \in 1..Len(f.cat[k].cats) |->
                      [col |-> f.cat[k].col, cat |-> f.cat[k].cats[j]]]
              ELSE <<>>])

\* SimpleImputer(strategy="constant"): missing numeric values become 0.
ImputeZero(p, v) == IF v = NA THEN 0 ELSE 2 * NumVal[v]

\* SimpleImputer.transform on one numeric cell (doubled).
ImputeNumeric(p, v) == IF v = NA THEN p.med2 ELSE 2 * NumVal[v]

\* StandardScaler.transform: (x - mean) / scale, scale = 1 when the variance
\* is zero.  With x = x2/2, mean = sum2/(2n), variance = dev2/(4 n^2):
\*   (n x2 - sum2) / sqrt(dev2), or (n x2 - sum2) / (2n) when dev2 = 0.
Scale(p, x2) ==
    [nan |-> FALSE,
     num |-> p.n * x2 - p.sum2,
     den2 |-> IF p.dev2 > 0 THEN p.dev2 ELSE 4 * p.n * p.n]

\* SimpleImputer.transform on one categorical cell.
ImputeCategorical(p, v) == IF v = NA THEN p.mode ELSE v

\* OneHotEncoder.transform: the indicator of one category; a value outside
\* the fitted categories matches none of them.
Indicator(v, cat) == [nan |-> FALSE, num |-> IF v = cat THEN 1 ELSE 0, den2 |-> 1]

\* preprocessor.transform on one row.
TransformRow(f, cells) ==
    Concat([k \in 1..Len(f.num) |->
              IF f.num[k].kept
              THEN <<Scale(f.num[k], ImputeNumeric(f.num[k], cells[f.num[k].col]))>>
              ELSE <<>>])
    \o
    Concat([k \in 1..Len(f.cat) |->
              IF f.cat[k].kept
              THEN [j \in 1..Len(f.cat[k].cats) |->
                      Indicator(ImputeCategorical(f.cat[k], cells[f.cat[k].col]),
                                f.cat[k].cats[j])]
              ELSE <<>>])

\* preprocessor.transform(rows)
Transform(f, rows) == [i \in 1..Len(rows) |-> TransformRow(f, rows[i])]

---------------------------------------------------------------------------
(* Inputs                                                                  *)

\* The headers of the files the calls are made on: one of the completion
\* data (with two columns of the drop list and a constant count n), one of
\* the placement data (with two placement-status columns).
Headers ==
    { <<"unitid", "grad_150_value", "grad_100_value", "x", "c", "n">>,
      <<"salary", "Status", "PLACED", "x", "c">> }

OutcomeNames == {"grad_150_value", "salary"}

\* The lines a file is made of: the outcome field y, a numeric-looking
\* feature x and a text feature c.  "bad" does not parse as a number, "t"
\* turns x into an object column, "" is an empty field.
RowKinds ==
    << [y |-> "1",   x |-> "1", c |-> "a"],
       [y |-> "1",   x |-> NA,  c |-> NA ],
       [y |-> "2",   x |-> "2", c |-> "b"],
       [y |-> "2",   x |-> "t", c |-> "a"],
       [y |-> "3",   x |-> NA,  c |-> "a"],
       [y |-> "3",   x |-> "2", c |-> NA ],
       [y |-> "bad", x |-> "1", c |-> "b"] >>

Line(h, k) ==
    [col \in Range(h) |->
        CASE col \in OutcomeNames -> k.y
          [] col = "x" -> k.x
          [] col = "c" -> k.c
          [] OTHER -> "1"]

\* The non-decreasing sequences over 1..k of length at most n: which kinds
\* a file's lines are of, lines of one kind together.
RECURSIVE Grouped(_, _)
Grouped(k, n) ==
    IF n = 0 THEN {<<>>}
    ELSE LET shorter == Grouped(k, n - 1)
             longest == {r \in shorter : Len(r) = n - 1}
         IN  shorter \cup
             UNION {{Append(q, e) : e \in (IF q = <<>> THEN 1 ELSE q[Len(q)])..k} :
                        q \in longest}

\* The files: a header and 1..MaxRows lines.
Files ==
    {[cols |-> h, rows |-> [i \in 1..Len(q) |-> Line(h, RowKinds[q[i]])]] :
        h \in Headers, q \in Grouped(Len(RowKinds), MaxRows) \ {<<>>}}

TestSizes == {<<1, 5>>, <<1, 2>>}
Seeds == {42, 7}

Calls ==
    [fn : {"college"}, salary_col : {"salary"}, test_size : TestSizes, seed : Seeds]
    \cup
    [fn : {"job"}, salary_col : {"salary", "pay"}, test_size : TestSizes, seed : Seeds]

---------------------------------------------------------------------------
(* The steps shared by the two entry points                                *)

Locals == <<df, cutoff, xy, roles, split, fitted, out>>

At(fn, step) == args.fn = fn /\ pc = step

Raise(e) ==
    /\ pc' = "failed"
    /\ err' = e
    /\ UNCHANGED <<csv, args, df, cutoff, xy, roles, split, fitted, out, result,
                   npRandom, prev>>

Goto(step) ==
    /\ pc' = step
    /\ UNCHANGED <<csv, args, result, err, npRandom, prev>>

\* The columns step 5 removes.
CollegeDropCols ==
    {"index", "unitid", "chronname", "site", "nicknames", "similar",
     "grad_150_value", "grad_100_value", "retain_value",
     "grad_100_percentile", "retain_percentile", "grad_150_percentile"}

\* The comparison without .lower().
IsStatusColumnExact(c) == c \in {"status", "placed"}

IsStatusColumn(c) == Lower(c) \in {"status", "placed"}

JobDropCols(t, salary_col) ==
    {salary_col} \cup {c \in Range(t.cols) : IsStatusColumn(c)}

\* y = df[label]; X = df.drop(columns=[label])
SplitXy(t, label) ==
    [X |-> drop(t, {label}),
     y |-> [i \in 1..Len(t.rows) |-> t.rows[i].cells[label]]]

\* num_cols / cat_cols, in the order of X.columns
Route(X) ==
    [num_cols |-> SelectSeq(X.cols, LAMBDA c : is_numeric_dtype(X, c)),
     cat_cols |-> SelectSeq(X.cols, LAMBDA c : ~is_numeric_dtype(X, c))]

RowsAt(X, pos) == [i \in 1..Len(pos) |-> X.rows[pos[i]].cells]
LabelsAt(y, pos) == [i \in 1..Len(pos) |-> y[pos[i]]]

\* The preprocessor fitted on X instead of X_train.
FitRowsAll(X, sp) == [i \in 1..Len(X.rows) |-> X.rows[i].cells]

\* The rows the preprocessor is fitted on: X_train.
FitRows(X, sp) == RowsAt(X, sp.train)

\* fit_transform instead of transform on X_test.
RefitOnTest(f, rows, r) == Fit(rows, r.num_cols, r.cat_cols)

\* The preprocessor applied to X_test: the one fitted on X_train
\* (preprocessor.transform, no refit).
TestPreprocessor(f, rows, r) == f

\* The check made on the literal "salary" instead of salary_col.
SalaryLiteralMissing(t, salary_col) == "salary" \notin Range(t.cols)

\* salary_col not in df.columns
SalaryColMissing(t, salary_col) == salary_col \notin Range(t.cols)

Read ==
    /\ df' = read_csv(csv)
    /\ UNCHANGED <<cutoff, xy, roles, split, fitted, out>>

ToNumeric(col, next) ==
    \/ /\ col \notin Range(df.cols)
       /\ Raise([kind |-> "KeyError", step |-> "to_numeric", what |-> col])
    \/ /\ col \in Range(df.cols)
       /\ df' = to_numeric(df, col)
       /\ Goto(next)
       /\ UNCHANGED <<cutoff, xy, roles, split, fitted, out>>

DropNa(col) ==
    /\ df' = dropna(df, col)
    /\ UNCHANGED <<cutoff, xy, roles, split, fitted, out>>

Cutoff(col) ==
    /\ cutoff' = median2(ColumnValues(df, col))
    /\ UNCHANGED <<df, xy, roles, split, fitted, out>>

Label(col, label) ==
    /\ df' = assign(df, label,
                    [i \in 1..Len(df.rows) |-> AboveCutoff(df.rows[i].cells[col], cutoff)])
    /\ UNCHANGED <<cutoff, xy, roles, split, fitted, out>>

DropColumns(names) ==
    /\ df' = drop(df, names)
    /\ UNCHANGED <<cutoff, xy, roles, split, fitted, out>>

Xy(label) ==
    /\ xy' = SplitXy(df, label)
    /\ UNCHANGED <<df, cutoff, roles, split, fitted, out>>

TypeRoute ==
    /\ roles' = Route(xy.X)
    /\ UNCHANGED <<df, cutoff, xy, split, fitted, out>>

TrainTestSplit(next) ==
    LET e  == SplitError(xy.y, args.test_size)
        rs == check_random_state(args.seed, npRandom)
        sp == StratifiedSplit(xy.y, args.test_size, rs)
    IN  \/ /\ e # None
           /\ Raise(e)
        \/ /\ e = None
           /\ split' = [train |-> sp.train, test |-> sp.test]
           /\ npRandom' = IF rs.global THEN sp.state ELSE npRandom
           /\ pc' = next
           /\ UNCHANGED <<csv, args, result, err, prev, df, cutoff, xy, roles,
                          fitted, out>>

FitTransform(next) ==
    LET f == Fit(FitRows(xy.X, split), roles.num_cols, roles.cat_cols)
        e == FitError(f)
    IN  \/ /\ e # None
           /\ Raise(e)
        \/ /\ e = None
           /\ fitted' = f
           /\ out' = [X_train_prep |-> Transform(f, RowsAt(xy.X, split.train)),
                      X_test_prep |-> None]
           /\ Goto(next)
           /\ UNCHANGED <<df, cutoff, xy, roles, split>>

TransformTest ==
    /\ out' = [out EXCEPT !.X_test_prep =
                  Transform(TestPreprocessor(fitted, RowsAt(xy.X, split.test), roles),
                            RowsAt(xy.X, split.test))]
    /\ UNCHANGED <<df, cutoff, xy, roles, split, fitted>>

Return ==
    /\ pc' = "done"
    /\ result' = [X_train_prep |-> out.X_train_prep,
                  X_test_prep |-> out.X_test_prep,
                  y_train |-> LabelsAt(xy.y, split.train),
                  y_test |-> LabelsAt(xy.y, split.test)]
    /\ UNCHANGED <<csv, args, err, npRandom, prev, df, cutoff, xy, roles, split,
                   fitted, out>>

---------------------------------------------------------------------------
(* college_train_test                                                      *)

CollegeRead       == At("college", "start") /\ Read /\ Goto("to_numeric")
CollegeToNumeric  == At("college", "to_numeric") /\ ToNumeric("grad_150_value", "dropna")
CollegeDropNa     == At("college", "dropna") /\ DropNa("grad_150_value") /\ Goto("cutoff")
CollegeCutoff     == At("college", "cutoff") /\ Cutoff("grad_150_value") /\ Goto("label")
CollegeLabel      == At("college", "label") /\ Label("grad_150_value", "high_grad_150")
                                            /\ Goto("drop")
CollegeDrop       == At("college", "drop")
                     /\ DropColumns({c \in CollegeDropCols : c \in Range(df.cols)})
                     /\ Goto("xy")
CollegeXy         == At("college", "xy") /\ Xy("high_grad_150") /\ Goto("route")
CollegeRoute      == At("college", "route") /\ TypeRoute /\ Goto("split")
CollegeSplit      == At("college", "split") /\ TrainTestSplit("fit")
CollegeFit        == At("college", "fit") /\ FitTransform("transform")
CollegeTransform  == At("college", "transform") /\ TransformTest /\ Goto("return")
CollegeReturn     == At("college", "return") /\ Return

---------------------------------------------------------------------------
(* job_train_test                                                          *)

JobRead           == At("job", "start") /\ Read /\ Goto("check")
JobCheck ==
    /\ At("job", "check")
    /\ \/ /\ SalaryColMissing(df, args.salary_col)
          /\ Raise([kind |-> "ValueError", step |-> "check", what |-> args.salary_col])
       \/ /\ ~SalaryColMissing(df, args.salary_col)
          /\ Goto("to_numeric")
          /\ UNCHANGED Locals
JobToNumeric      == At("job", "to_numeric") /\ ToNumeric(args.salary_col, "dropna")
JobDropNa         == At("job", "dropna") /\ DropNa(args.salary_col) /\ Goto("cutoff")
JobCutoff         == At("job", "cutoff") /\ Cutoff(args.salary_col) /\ Goto("label")
JobLabel          == At("job", "label") /\ Label(args.salary_col, "above_median_salary")
                                        /\ Goto("drop")
JobDrop           == At("job", "drop") /\ DropColumns(JobDropCols(df, args.salary_col))
                                       /\ Goto("xy")
JobXy             == At("job", "xy") /\ Xy("above_median_salary") /\ Goto("route")
JobRoute          == At("job", "route") /\ TypeRoute /\ Goto("split")
JobSplit          == At("job", "split") /\ TrainTestSplit("fit")
JobFit            == At("job", "fit") /\ FitTransform("transform")
JobTransform      == At("job", "transform") /\ TransformTest /\ Goto("return")
JobReturn         == At("job", "return") /\ Return

---------------------------------------------------------------------------
(* The caller                                                              *)

\* The same call is made again on the same file.  Every local of the
\* finished call is gone; prev remembers what it returned or raised.
CallAgain ==
    /\ pc \in {"done", "failed"}
    /\ prev' = [result |-> result, err |-> err, split |-> split]
    /\ pc' = "start"
    /\ df' = None /\ cutoff' = None /\ xy' = None /\ roles' = None
    /\ split' = None /\ fitted' = None /\ out' = None
    /\ result' = None /\ err' = None
    /\ UNCHANGED <<csv, args, npRandom>>

Init ==
    /\ csv \in Files
    /\ args \in Calls
    /\ pc = "start"
    /\ df = None /\ cutoff = None /\ xy = None /\ roles = None
    /\ split = None /\ fitted = None /\ out = None
    /\ result = None /\ err = None
    /\ npRandom = 0
    /\ prev = None

\* One call, step by step.
Next ==
    \/ CollegeRead \/ CollegeToNumeric \/ CollegeDropNa \/ CollegeCutoff
    \/ CollegeLabel \/ CollegeDrop \/ CollegeXy \/ CollegeRoute
    \/ CollegeSplit \/ CollegeFit \/ CollegeTransform \/ CollegeReturn
    \/ JobRead \/ JobCheck \/ JobToNumeric \/ JobDropNa \/ JobCutoff
    \/ JobLabel \/ JobDrop \/ JobXy \/ JobRoute
    \/ JobSplit \/ JobFit \/ JobTransform \/ JobReturn

Spec == Init /\ [][Next]_vars

\* The call, made again and again.
NextRepeat == Next \/ CallAgain

SpecRepeat == Init /\ [][NextRepeat]_vars

---------------------------------------------------------------------------
(* Vocabulary of the properties                                            *)

OutcomeCol == IF args.fn = "college" THEN "grad_150_value" ELSE args.salary_col
LabelCol == IF args.fn = "college" THEN "high_grad_150" ELSE "above_median_salary"

OutcomePresent == OutcomeCol \in Range(csv.cols)

\* The lines of the file whose outcome field parses as a number.
ParsedLines ==
    IF OutcomePresent
    THEN {i \in 1..Len(csv.rows) : csv.rows[i][OutcomeCol] \in {"1", "2", "3"}}
    ELSE {}

AfterSplit == {"fit", "transform", "return", "done"}

Abs(i) == IF i < 0 THEN -i ELSE i

\* Every spelling of the two placement-status names the headers may use.
StatusSpellings == {"status", "Status", "STATUS", "placed", "Placed", "PLACED"}

\* The columns that must never feed the feature matrices.
Forbidden ==
    {OutcomeCol, LabelCol}
    \cup (IF args.fn = "college"
          THEN {"index", "unitid", "chronname", "site", "nicknames", "similar",
                "grad_150_value", "grad_100_value", "retain_value",
                "grad_100_percentile", "retain_percentile", "grad_150_percentile"}
          ELSE StatusSpellings)

---------------------------------------------------------------------------
(* C1 *)

\* C1: in both pipelines the columns the feature matrices are built from
\* (X's columns, the routed numeric and categorical columns, the columns of
\* the fitted preprocessor's output) never include the outcome column, the
\* derived label column, a column of the completion drop list, or (job) a
\* column spelled status / placed in any letter case; and no call fails in
\* the column-dropping step, whichever listed columns the file lacks.
C1_NoLeakageColumns ==
    /\ xy # None => Range(xy.X.cols) \cap Forbidden = {}
    /\ roles # None =>
          (Range(roles.num_cols) \cup Range(roles.cat_cols)) \cap Forbidden = {}
    /\ fitted # None =>
          {OutCols(fitted)[j].col : j \in 1..Len(OutCols(fitted))} \cap Forbidden = {}
    /\ pc = "failed" => err.step # "drop"
    /\ pc \in AfterSplit /\ result # None =>
          /\ Len(result.X_train_prep[1]) = Len(OutCols(fitted))
          /\ Range(roles.num_cols) \cup Range(roles.cat_cols)
                = Range(csv.cols) \ Forbidden

\* A job call returned on a file that has placement-status columns and lacks
\* nothing else.
C1_Witness ==
    /\ pc = "done" /\ args.fn = "job"
    /\ {"Status", "PLACED"} \subseteq Range(csv.cols)
    /\ Range(roles.num_cols) \cup Range(roles.cat_cols) = {"x", "c"}

---------------------------------------------------------------------------
(* C2 *)

LabelledValues == [i \in 1..Len(df.rows) |-> NumVal[df.rows[i].cells[OutcomeCol]]]

AtMost(vals, a) == Cardinality({i \in 1..Len(vals) : vals[i] <= a})
AtLeast(vals, b) == Cardinality({i \in 1..Len(vals) : vals[i] >= b})

\* m2 is twice the median of vals: the middle value, or the sum of the two
\* middle values.
IsMedian2(vals, m2) ==
    \E a \in Range(vals), b \in Range(vals) :
        /\ a <= b /\ a + b = m2
        /\ IF a = b
           THEN 2 * AtMost(vals, a) > Len(vals) /\ 2 * AtLeast(vals, a) > Len(vals)
           ELSE 2 * AtMost(vals, a) = Len(vals) /\ 2 * AtLeast(vals, b) = Len(vals)

---------------------------------------------------------------------------
(* C5 *)

SingleClass == xy # None /\ Cardinality(Range(xy.y)) < 2

---------------------------------------------------------------------------
(* C6 *)

\* C6: job_train_test fails in its column check, with a ValueError naming
\* salary_col, exactly when salary_col is not a column of the file; the
\* failure comes before anything but the load has happened.
C6_MissingSalaryColumn ==
    /\ args.fn = "job" /\ args.salary_col \notin Range(csv.cols) =>
          /\ pc \in {"start", "check", "failed"}
          /\ pc = "failed" =>
                /\ err = [kind |-> "ValueError", step |-> "check",
                          what |-> args.salary_col]
                /\ df = read_csv(csv)
                /\ cutoff = None /\ xy = None /\ roles = None /\ split = None
                /\ fitted = None /\ out = None /\ result = None
    /\ pc = "failed" /\ err.step = "check" =>
          args.fn = "job" /\ args.salary_col \notin Range(csv.cols)

\* The check failed for salary_col = "pay" on a file that has a salary
\* column.
C6_Witness ==
    /\ pc = "failed" /\ err.step = "check"
    /\ args.salary_col = "pay" /\ "salary" \in Range(csv.cols)

---------------------------------------------------------------------------
(* C7 *)

NothingParses == OutcomePresent /\ ParsedLines = {}

\* C7 as claimed: when no outcome value parses the call ends in the cutoff
\* step and goes no further.
C7_Claimed_FailsAtCutoff ==
    NothingParses =>
        /\ pc \notin {"label", "drop", "xy", "route", "split"} \cup AfterSplit
        /\ pc = "failed" => err.step = "cutoff"

\* C7: when the outcome column is present and no value of it parses, the
\* median is NaN and nothing is raised in the cutoff step; labels are derived
\* and columns dropped on the empty table, and the call fails in the split
\* (empty train set) without returning anything.
C7_NoOutcomeParses ==
    NothingParses =>
        /\ cutoff # None => cutoff.nan
        /\ pc \notin AfterSplit /\ result = None
        /\ pc = "failed" => err.step = "split" /\ err.what = "empty train set"
        /\ pc \in {"drop", "xy"} => df.rows = <<>> /\ LabelCol \in Range(df.cols)
        /\ pc \in {"route", "split", "failed"} =>
              xy.y = <<>> /\ OutcomeCol \notin Range(xy.X.cols)

\* The call failed in the split on a file of three lines, none parseable.
C7_Witness ==
    /\ NothingParses /\ Len(csv.rows) = 3
    /\ pc = "failed" /\ err.step = "split"

---------------------------------------------------------------------------
(* C8 *)

Ones(labels) == Cardinality({i \in 1..Len(labels) : labels[i] = "1"})

\* The label of line i of the file, from the file itself.
LabelOfLine(i) ==
    IF 2 * NumVal[csv.rows[i][OutcomeCol]] > cutoff.v2 THEN "1" ELSE "0"

\* The two partitions are disjoint, cover exactly the lines whose outcome
\* parsed, the test partition has ceil(test_size * n) rows, and row i of
\* each matrix and label i of its label vector come from the same line.
PartitionIsSound ==
    LET n   == Len(xy.X.rows)
        tr  == split.train
        te  == split.test
        num == args.test_size[1]
        den == args.test_size[2]
    IN  /\ {xy.X.rows[i].idx : i \in 1..n} = ParsedLines
        /\ n = Cardinality(ParsedLines)
        /\ Range(tr) \cap Range(te) = {}
        /\ Range(tr) \cup Range(te) = 1..n
        /\ Len(tr) + Len(te) = n
        /\ Len(te) * den >= num * n /\ (Len(te) - 1) * den < num * n
        /\ Len(result.X_train_prep) = Len(tr) /\ Len(result.y_train) = Len(tr)
        /\ Len(result.X_test_prep) = Len(te) /\ Len(result.y_test) = Len(te)
        /\ \A i \in 1..Len(tr) :
              /\ result.y_train[i] = LabelOfLine(xy.X.rows[tr[i]].idx)
              /\ result.X_train_prep[i] = TransformRow(fitted, xy.X.rows[tr[i]].cells)
        /\ \A i \in 1..Len(te) :
              /\ result.y_test[i] = LabelOfLine(xy.X.rows[te[i]].idx)
              /\ result.X_test_prep[i] = TransformRow(fitted, xy.X.rows[te[i]].cells)

\* The share of label 1 in part is within pct percentage points of its share
\* in all.
WithinPoints(part, all, pct) ==
    100 * Abs(Ones(part) * Len(all) - Ones(all) * Len(part))
        <= pct * Len(all) * Len(part)

\* The number of label-1 rows in part is less than one row away from
\* Len(part) times the share of label 1 in all.
WithinOneRow(part, all) ==
    Abs(Ones(part) * Len(all) - Ones(all) * Len(part)) < Len(all)

\* C8 as claimed: a sound partition, and the share of label 1 in each
\* partition within 2 percentage points of its share in the full set.
C8_Claimed_WithinTwoPoints ==
    pc = "done" =>
        /\ PartitionIsSound
        /\ WithinPoints(result.y_train, xy.y, 2)
        /\ WithinPoints(result.y_test, xy.y, 2)

\* C8: for every call that returns, the train and test rows are disjoint and
\* together are exactly the n rows with a parseable outcome, the test
\* partition has ceil(test_size * n) rows and the train partition the rest,
\* each label vector is row-aligned with its matrix, and the number of
\* label-1 rows of each partition is less than one row away from the
\* partition's size times the share of label 1 in the full set.
C8_StratifiedPartition ==
    pc = "done" =>
        /\ PartitionIsSound
        /\ WithinOneRow(result.y_train, xy.y)
        /\ WithinOneRow(result.y_test, xy.y)

\* A call returned on five parseable rows, three of label 0 and two of
\* label 1, split 2 / 3.
C8_Witness ==
    /\ pc = "done"
    /\ Len(xy.y) = 5 /\ Ones(xy.y) = 2
    /\ Len(split.train) = 2 /\ Len(split.test) = 3
    /\ Ones(result.y_train) = 1

---------------------------------------------------------------------------
(* C9 *)

\* C9: a call made again with the same file, test_size and seed ends as the
\* call before it did: the same partition, the same matrices and labels, or
\* the same exception; and a call starts with nothing left of the one
\* before (no DataFrame, cutoff, column roles, partition or fitted
\* preprocessor).
C9_Deterministic ==
    /\ pc \in {"done", "failed"} /\ prev # None =>
          result = prev.result /\ err = prev.err /\ split = prev.split
    /\ pc = "start" =>
          /\ df = None /\ cutoff = None /\ xy = None /\ roles = None
          /\ split = None /\ fitted = None /\ out = None
          /\ result = None /\ err = None

\* A second call returned, after a first one that returned a partition of
\* five rows.
C9_Witness ==
    /\ pc = "done" /\ prev # None
    /\ prev.result # None
    /\ Len(prev.split.train) + Len(prev.split.test) = 5

---------------------------------------------------------------------------
(* C4 *)

TrainValues(c) ==
    {xy.X.rows[split.train[i]].cells[c] : i \in 1..Len(split.train)} \ {NA}

\* Row i of the test partition holds, in categorical column c, a value no
\* train row holds.
UnseenInTest(i, c) ==
    LET v == xy.X.rows[split.test[i]].cells[c]
    IN  v # NA /\ v \notin TrainValues(c)

\* C4: a category that occurs only in test rows is encoded as zeros in every
\* indicator of its column, a category that occurs in train rows as a one in
\* its own indicator and zeros in the others; the call is not failed by it,
\* and every row of the test matrix has the columns of the train matrix, in
\* the same number and order.
C4_UnseenCategoryIsAllZero ==
    pc = "done" =>
        LET cols == OutCols(fitted)
        IN  /\ \A i \in 1..Len(result.X_train_prep) :
                  Len(result.X_train_prep[i]) = Len(cols)
            /\ \A i \in 1..Len(result.X_test_prep) :
                  /\ Len(result.X_test_prep[i]) = Len(cols)
                  /\ \A j \in 1..Len(cols) :
                        LET v == xy.X.rows[split.test[i]].cells[cols[j].col]
                        IN  cols[j].cat # NA /\ v # NA =>
                              /\ cols[j].cat \in TrainValues(cols[j].col)
                              /\ result.X_test_prep[i][j] =
                                    [nan |-> FALSE, den2 |-> 1,
                                     num |-> IF v = cols[j].cat THEN 1 ELSE 0]
            /\ \A c \in Range(roles.cat_cols) :
                  TrainValues(c) = {cols[j].cat : j \in {k \in 1..Len(cols) : cols[k].col = c}}

\* A call returned whose test partition holds a category of column c that
\* its train partition lacks, and column c has indicators.
C4_Witness ==
    /\ pc = "done"
    /\ \E i \in 1..Len(split.test) : UnseenInTest(i, "c")
    /\ TrainValues("c") # {}

---------------------------------------------------------------------------
(* C10 *)

NoNaN(matrix) ==
    \A i \in 1..Len(matrix) : \A j \in 1..Len(matrix[i]) : ~matrix[i][j].nan

TrainObserved(c) ==
    SelectSeq([i \in 1..Len(split.train) |-> xy.X.rows[split.train[i]].cells[c]],
              LAMBDA v : v # NA)

\* The most frequent of the values, the first in text order among equals.
IsMode(vals, m) ==
    LET freq(v) == Cardinality({i \in 1..Len(vals) : vals[i] = v})
    IN  /\ m \in Range(vals)
        /\ \A w \in Range(vals) : freq(w) <= freq(m)
        /\ \A w \in Range(vals) : freq(w) = freq(m) => RankOf(m) <= RankOf(w)

ColumnOf(c, cat) ==
    {j \in 1..Len(OutCols(fitted)) : OutCols(fitted)[j] = [col |-> c, cat |-> cat]}

\* In the rows at pos (positions of X), matrix shows every missing value of
\* numeric column c as the train median and every missing value of
\* categorical column c as the train mode.
MissingAreImputed(matrix, pos, c) ==
    \A i \in 1..Len(pos) :
        xy.X.rows[pos[i]].cells[c] = NA =>
            IF c \in Range(roles.num_cols)
            THEN \E k \in 1..Len(fitted.num) :
                    /\ fitted.num[k].col = c
                    /\ ColumnOf(c, NA) # {}
                    /\ \A j \in ColumnOf(c, NA) :
                          matrix[i][j] =
                            Scale(fitted.num[k],
                                  median2([q \in 1..Len(TrainObserved(c)) |->
                                              NumVal[TrainObserved(c)[q]]]).v2)
            ELSE \E m \in Range(TrainObserved(c)) :
                    /\ IsMode(TrainObserved(c), m)
                    /\ ColumnOf(c, m) # {}
                    /\ \A cat \in TrainValues(c) : \A j \in ColumnOf(c, cat) :
                          matrix[i][j].num = IF cat = m THEN 1 ELSE 0

FeatureCols == Range(roles.num_cols) \cup Range(roles.cat_cols)

\* C10 as claimed: no NaN is left in either matrix, and in every feature
\* column every missing value is replaced by the train median or mode.
C10_Claimed_AllMissingImputed ==
    pc = "done" =>
        /\ NoNaN(result.X_train_prep) /\ NoNaN(result.X_test_prep)
        /\ \A c \in FeatureCols :
              /\ MissingAreImputed(result.X_train_prep, split.train, c)
              /\ MissingAreImputed(result.X_test_prep, split.test, c)

\* C10: for every call that returns, no NaN is left in either matrix; in
\* every feature column with at least one value present in the train
\* partition every missing value (train or test) is replaced by the train
\* median (numeric) or the train most-frequent value (categorical); a
\* feature column with no value present in the train partition is left out
\* of both matrices.
C10_NoMissingLeft ==
    pc = "done" =>
        /\ NoNaN(result.X_train_prep) /\ NoNaN(result.X_test_prep)
        /\ \A c \in FeatureCols :
              IF TrainObserved(c) # <<>>
              THEN /\ MissingAreImputed(result.X_train_prep, split.train, c)
                   /\ MissingAreImputed(result.X_test_prep, split.test, c)
              ELSE \A j \in 1..Len(OutCols(fitted)) : OutCols(fitted)[j].col # c

\* A call returned with column x missing in every train row (and left out),
\* and column c missing in a test row only.
C10_Witness ==
    /\ pc = "done"
    /\ "x" \in FeatureCols /\ TrainObserved("x") = <<>>
    /\ Len(TrainObserved("c")) = Len(split.train)
    /\ \E i \in 1..Len(split.test) : xy.X.rows[split.test[i]].cells["c"] = NA

---------------------------------------------------------------------------
(* C3 *)

\* Steps 1 to 6 of the current entry point on another file: X and y.
Prepared(file) ==
    LET t0 == read_csv(file)
        t1 == dropna(to_numeric(t0, OutcomeCol), OutcomeCol)
        m  == median2(ColumnValues(t1, OutcomeCol))
        t2 == assign(t1, LabelCol,
                     [i \in 1..Len(t1.rows) |->
                        AboveCutoff(t1.rows[i].cells[OutcomeCol], m)])
        t3 == drop(t2, IF args.fn = "college"
                       THEN {c \in CollegeDropCols : c \in Range(t2.cols)}
                       ELSE JobDropCols(t2, args.salary_col))
    IN  SplitXy(t3, LabelCol)

FeatureTexts == {"1", "2", "a", "b", "t", NA}

TestLines == {xy.X.rows[split.test[i]].idx : i \in 1..Len(split.test)}

\* The file that differs from csv in field c of line i, which becomes v.
Perturbed(i, c, v) == [csv EXCEPT !.rows[i][c] = v]

\* The changes of one feature field of one line of the test partition.
TestPerturbations ==
    {<<i, c, v>> \in TestLines \X Range(xy.X.cols) \X FeatureTexts :
        csv.rows[i][c] # v}

\* What the call computes on another file: X, the roles, the partition, the
\* fitted preprocessor and the train matrix.
RunOn(file) ==
    LET p  == Prepared(file)
        r  == Route(p.X)
        s  == StratifiedSplit(p.y, args.test_size,
                              check_random_state(args.seed, npRandom))
        sp == [train |-> s.train, test |-> s.test]
        f  == Fit(FitRows(p.X, sp), r.num_cols, r.cat_cols)
    IN  [roles |-> r, split |-> sp, fitted |-> f, X |-> p.X,
         X_train_prep |-> Transform(f, RowsAt(p.X, sp.train))]

SameTrainSide(run) ==
    /\ run.split = split
    /\ run.fitted = fitted
    /\ run.X_train_prep = result.X_train_prep

\* C3 as claimed: changing a feature value of a test row changes neither
\* the role of any column, nor the fitted parameters, nor the train matrix.
C3_Claimed_TrainSideIgnoresTestRows ==
    pc = "done" =>
        \A g \in TestPerturbations :
            LET run == RunOn(Perturbed(g[1], g[2], g[3])) IN run.roles = roles /\ SameTrainSide(run)

\* C3: the numeric / categorical role of a column is decided before the
\* split, from every line of the file (a column is numeric exactly when each
\* of its fields is a number or empty).  Given the roles, the fitted
\* imputation medians, means, standard deviations, modes and category
\* vocabularies and the train matrix depend on train rows only: changing a
\* feature value of a test row in a way that leaves every role unchanged
\* leaves the partition, the fitted preprocessor and the train matrix
\* unchanged.
C3_TrainSideIgnoresTestRows ==
    pc = "done" =>
        /\ \A c \in Range(xy.X.cols) :
              c \in Range(roles.num_cols) <=>
                 \A i \in 1..Len(csv.rows) : csv.rows[i][c] \in {"1", "2", "3", NA}
        /\ \A g \in TestPerturbations :
              LET run == RunOn(Perturbed(g[1], g[2], g[3])) IN run.roles = roles => SameTrainSide(run)

\* A call returned, and some change of a test row's feature value keeps the
\* roles and changes the test matrix.
C3_Witness ==
    /\ pc = "done"
    /\ \E g \in TestPerturbations :
          LET run == RunOn(Perturbed(g[1], g[2], g[3]))
          IN  /\ run.roles = roles
              /\ Transform(run.fitted, RowsAt(run.X, run.split.test))
                    # result.X_test_prep

====
